---- MODULE Spec2Model ----
(***************************************************************************)
(* Model of the quality-controlled audio production pipeline of dj-cli:    *)
(*   - AudioQualityAnalyzer._calculate_score  (audio_quality_analyzer.py)  *)
(*   - JDCLCompiler._compile_with_quality_control  (jdcl_compiler.py)      *)
(*   - AdvancedMasteringChain._intelligent_limiting / _apply_limiter       *)
(*     (advanced_mastering.py)                                             *)
(*                                                                         *)
(* Floating-point quantities are fixed-point integers.  Units:             *)
(*   clipping_percentage                      0.001 %                      *)
(*   total_silence_percentage, stereo_width   0.1 %                        *)
(*   longest_silence_duration                 0.01 s                       *)
(*   *_db, integrated_lufs                    0.1 dB                       *)
(*   spectral_flatness, phase_correlation     0.01                         *)
(*   overall_score, best_score, penalties     0.01 point                   *)
(*   limiter samples                          0.001 of full scale          *)
(*   limiter gains                            0.0001                       *)
(*   analyzed samples                         0.0001 of full scale         *)
(*   gap start times and durations            0.01 s                       *)
(*   band energies of a report                0.01 %                       *)
(***************************************************************************)
EXTENDS Integers, Sequences, FiniteSets, TLC

VARIABLES
    \* ---- JDCLCompiler._compile_with_quality_control (one request)
    pc,                  \* position in the method
    enable_qa,           \* arguments of the request
    enable_humanization,
    enable_mastering,
    attempt,             \* loop index of `for attempt in range(...)`
    audio,               \* local `audio`
    report,              \* local `report` (last in-loop report)
    best_audio,
    best_report,
    best_score,
    final_report,
    result,              \* the pair returned: [audio, report]
    calls,               \* history: the collaborator calls made, in order
    attempts,            \* history: [id, report] of each in-loop analysis, in order
    fixed_with,          \* history: the arguments of _apply_intelligent_fixes
    \* ---- AudioQualityAnalyzer
    thresholds,          \* self.thresholds
    lufs_available,      \* module flag LUFS_AVAILABLE
    qreport,             \* the report handed to _calculate_score
    qpc,
    buf,                 \* the AudioSegment handed to analyze
    outcomes,            \* history: what each analyze call on buf returned or raised
    \* ---- AdvancedMasteringChain._intelligent_limiting
    left, right,         \* input channels
    out_left, out_right, \* channels returned by the limiting pass
    fin_left, fin_right, \* channels of the buffer master_audio returns
    lpc,
    \* ---- the stages after the loop, on one best candidate
    stage_pc,
    stage_flags,         \* enable_qa, enable_humanization, enable_mastering
    stage_best,          \* best_audio (its channel count) and best_report
    stage_audio          \* local `audio`, or the exception a stage raised

ctlVars == <<pc, enable_qa, enable_humanization, enable_mastering, attempt, audio,
             report, best_audio, best_report, best_score, final_report, result,
             calls, attempts, fixed_with>>
anaVars == <<thresholds, lufs_available, buf, outcomes>>
scoreVars == <<qreport, qpc>>
limVars == <<left, right, out_left, out_right, fin_left, fin_right, lpc>>
stageVars == <<stage_pc, stage_flags, stage_best, stage_audio>>
vars == <<ctlVars, anaVars, scoreVars, limVars, stageVars>>

Min(a, b) == IF a < b THEN a ELSE b
Max(a, b) == IF a > b THEN a ELSE b
Abs(x) == IF x < 0 THEN -x ELSE x

\* Python's None
None == [none |-> TRUE]

\* an exception leaving the function `at`
Raised(error, at) == [raised |-> TRUE, error |-> error, at |-> at]
\* x is an exception, not a buffer
IsRaised(x) == "raised" \in DOMAIN x

(***************************************************************************)
(* AudioQualityAnalyzer: thresholds and scoring                            *)
(***************************************************************************)

\* -inf, as stored in true_peak_db (and returned by the loudness meter) for a
\* channel without any signal
NegInf == -1000000

\* self.thresholds as built by __init__
DefaultThresholds ==
    [ peak_max_db             |-> -3,    \* -0.3 dB
      rms_min_db              |-> -250,  \* -25.0 dB
      rms_max_db              |-> -60,   \* -6.0 dB
      clipping_max_percentage |-> 1,     \* 0.001 %
      silence_max_gap_seconds |-> 80,    \* 0.8 s
      silence_max_percentage  |-> 50,    \* 5.0 %
      dynamic_range_min_db    |-> 120,   \* 12.0 dB
      spectral_flatness_min   |-> 15,    \* 0.15
      phase_correlation_min   |-> 70,    \* 0.7
      stereo_width_min        |-> 400,   \* 40.0 %
      frequency_balance_tolerance |-> 30 ] \* 3.0 dB

\* self.thresholds after a caller has installed the relaxed limits the comments
\* of __init__ name as the former ones (clipping 0.01 %, gap 2 s, silence 15 %,
\* phase correlation 0.3)
RelaxedThresholds ==
    [ DefaultThresholds EXCEPT
        !.clipping_max_percentage = 10,
        !.silence_max_gap_seconds = 200,
        !.silence_max_percentage  = 150,
        !.phase_correlation_min   = 30 ]

Profiles == {DefaultThresholds, RelaxedThresholds}

\* the passing score the specification attaches to a threshold profile
\* (85 for the strict one, 60 for the permissive one)
ProfilePassingScore(th) == IF th = DefaultThresholds THEN 8500 ELSE 6000

\* AudioQualityReport(): the fields _calculate_score and the controller read
FreshReport ==
    [ peak_level_db |-> 0, rms_level_db |-> 0, dynamic_range_db |-> 0,
      clipping_percentage |-> 0,
      total_silence_percentage |-> 0, longest_silence_duration |-> 0,
      silence_gap_count |-> 0,
      spectral_flatness |-> 0,
      stereo_width |-> 0, phase_correlation |-> 0,
      integrated_lufs |-> 0, true_peak_db |-> 0,
      overall_score |-> 0, passed |-> FALSE ]

\* faulty variant: the penalty is added to the score instead of subtracted
ClippingPenaltySignFlipped(r, th) ==
    IF r.clipping_percentage > th.clipping_max_percentage
    THEN -Min(6000, r.clipping_percentage * 100)
    ELSE 0

\* rule 1: clipping.  The penalty is clipping_percentage * 1000 (not the excess)
ClippingPenalty(r, th) ==
    IF r.clipping_percentage > th.clipping_max_percentage
    THEN Min(6000, r.clipping_percentage * 100)
    ELSE 0

\* rule 2: total silence
SilencePenalty(r, th) ==
    IF r.total_silence_percentage > th.silence_max_percentage
    THEN Min(4000, (r.total_silence_percentage - th.silence_max_percentage) * 50)
    ELSE 0

\* faulty variant: the whole duration is charged, not the excess
LongSilencePenaltyByValue(r, th) ==
    IF r.longest_silence_duration > th.silence_max_gap_seconds
    THEN Min(3500, r.longest_silence_duration * 20)
    ELSE 0

\* rule 3: longest silence gap
LongSilencePenalty(r, th) ==
    IF r.longest_silence_duration > th.silence_max_gap_seconds
    THEN Min(3500, (r.longest_silence_duration - th.silence_max_gap_seconds) * 20)
    ELSE 0

\* rule 4: dynamic range
DynamicRangePenalty(r, th) ==
    IF r.dynamic_range_db < th.dynamic_range_min_db
    THEN Min(3000, (th.dynamic_range_min_db - r.dynamic_range_db) * 30)
    ELSE 0

\* rule 5: peak too hot
PeakPenalty(r, th) ==
    IF r.peak_level_db > th.peak_max_db
    THEN Min(3000, (r.peak_level_db - th.peak_max_db) * 200)
    ELSE 0

\* rule 6: RMS too quiet / too loud (two independent ifs)
RmsPenalty(r, th) ==
    (IF r.rms_level_db < th.rms_min_db
     THEN Min(2000, (th.rms_min_db - r.rms_level_db) * 15)
     ELSE 0)
  + (IF r.rms_level_db > th.rms_max_db
     THEN Min(1000, (r.rms_level_db - th.rms_max_db) * 20)
     ELSE 0)

\* rule 7: spectral flatness
FlatnessPenalty(r, th) ==
    IF r.spectral_flatness < th.spectral_flatness_min
    THEN Min(1500, (th.spectral_flatness_min - r.spectral_flatness) * 30)
    ELSE 0

\* rule 8: phase correlation
PhasePenalty(r, th) ==
    IF r.phase_correlation < th.phase_correlation_min
    THEN Min(2500, (th.phase_correlation_min - r.phase_correlation) * 40)
    ELSE 0

\* rule 9: stereo width
StereoWidthPenalty(r, th) ==
    IF r.stereo_width < th.stereo_width_min
    THEN Min(1500, (th.stereo_width_min - r.stereo_width) * 5)
    ELSE 0

\* faulty variant: rule 10 runs on the six band energies of the report; a band
\* at twice the average or more (6 dB, 3 dB over the tolerance) costs
\* min(5.0, 3 * 2) = 5 points
FrequencyBalancePenaltyFromBands(r, th) ==
    IF "band_energies" \in DOMAIN r
    THEN 500 * Cardinality({ k \in 1..6 :
                               /\ r.band_energies[k] > 0
                               /\ r.band_energies[k] * 6 >=
                                    2 * (r.band_energies[1] + r.band_energies[2]
                                         + r.band_energies[3] + r.band_energies[4]
                                         + r.band_energies[5] + r.band_energies[6]) })
    ELSE 0

\* rule 10 is guarded by hasattr(report, 'frequency_balance'): AudioQualityReport
\* has no such attribute and no analysis step sets one, so the rule never runs.
FrequencyBalancePenalty(r, th) == 0

\* rule 11: loudness, only with the meter present and integrated_lufs != 0.0.
\* (-20 - (-inf)) * 2 = +inf, and min(20, +inf) = 20; -inf > -0.5 is false.
LufsPenalty(r, lufs) ==
    IF lufs /\ r.integrated_lufs # 0
    THEN (IF r.integrated_lufs = NegInf THEN 2000
          ELSE IF r.integrated_lufs < -200
               THEN Min(2000, (-200 - r.integrated_lufs) * 20)
          ELSE IF r.integrated_lufs > -60
               THEN Min(1500, (r.integrated_lufs + 60) * 30)
          ELSE 0)
       + (IF r.true_peak_db # NegInf /\ r.true_peak_db > -5
          THEN Min(2500, (r.true_peak_db + 5) * 200)
          ELSE 0)
    ELSE 0

TotalPenalty(r, th, lufs) ==
    ClippingPenalty(r, th) + SilencePenalty(r, th) + LongSilencePenalty(r, th)
  + DynamicRangePenalty(r, th) + PeakPenalty(r, th) + RmsPenalty(r, th)
  + FlatnessPenalty(r, th) + PhasePenalty(r, th) + StereoWidthPenalty(r, th)
  + FrequencyBalancePenalty(r, th) + LufsPenalty(r, lufs)

\* faulty variant: the floor at 0 is forgotten
ClampScoreNoFloor(score) == score

\* report.overall_score = max(0.0, score)
ClampScore(score) == Max(0, score)

\* the literal 85.0 of `report.passed = report.overall_score >= 85.0`
PassingScore == 8500

\* faulty variant: the comparison is inverted
PassedWhenBelow(score, th) == score < PassingScore

\* faulty variant: the verdict uses the passing score of the threshold profile
PassedPerProfile(score, th) == score >= ProfilePassingScore(th)

\* report.passed: the thresholds in force (th) are not consulted
Passed(score, th) == score >= PassingScore

\* _calculate_score(report): sets overall_score and passed
CalculateScore(r, th, lufs) ==
    LET score == ClampScore(10000 - TotalPenalty(r, th, lufs))
    IN  [r EXCEPT !.overall_score = score, !.passed = Passed(score, th)]

CtlIdle ==
    /\ pc = "idle" /\ enable_qa = FALSE /\ enable_humanization = FALSE
    /\ enable_mastering = FALSE /\ attempt = 0 /\ audio = None /\ report = None
    /\ best_audio = None /\ best_report = None /\ best_score = -100
    /\ final_report = None /\ result = None /\ calls = <<>> /\ attempts = <<>>
    /\ fixed_with = None

ScoreIdle == qreport = None /\ qpc = "idle"

MeasureIdle == buf = None /\ outcomes = <<>>

LimIdle ==
    /\ left = <<>> /\ right = <<>> /\ out_left = <<>> /\ out_right = <<>>
    /\ fin_left = <<>> /\ fin_right = <<>>
    /\ lpc = "idle"

StageIdle ==
    /\ stage_pc = "idle" /\ stage_flags = None /\ stage_best = None
    /\ stage_audio = None

(***************************************************************************)
(* JDCLCompiler._compile_with_quality_control                              *)
(***************************************************************************)

\* self.max_regeneration_attempts, self.enable_auto_fix, self.enable_humanization,
\* self.enable_mastering as set by __init__
max_regeneration_attempts == 5
self_enable_auto_fix == TRUE
self_enable_humanization == TRUE
self_enable_mastering == TRUE

\* what the analyzer measures on the buffers _compile_composition_base can
\* return: a clean mix (100), a dual-mono mix (85), a mix with silent stretches,
\* a spiky quiet mix, an all-silent track
CleanMix(lufs) ==
    [ FreshReport EXCEPT
        !.peak_level_db = -30, !.rms_level_db = -160, !.dynamic_range_db = 130,
        !.spectral_flatness = 50, !.phase_correlation = 100, !.stereo_width = 500,
        !.integrated_lufs = IF lufs THEN -140 ELSE 0,
        !.true_peak_db = IF lufs THEN -10 ELSE 0 ]

DualMonoMix(lufs) == [ CleanMix(lufs) EXCEPT !.stereo_width = 0 ]

GappyMix(lufs) ==
    [ CleanMix(lufs) EXCEPT
        !.total_silence_percentage = 130, !.longest_silence_duration = 120,
        !.silence_gap_count = 1 ]

SpikyMix(lufs) ==
    [ DualMonoMix(lufs) EXCEPT !.rms_level_db = -300, !.dynamic_range_db = 270 ]

SilentTrack(lufs) ==
    [ FreshReport EXCEPT
        !.peak_level_db = -2000, !.rms_level_db = -2000,
        !.total_silence_percentage = 1000, !.longest_silence_duration = 1000,
        !.silence_gap_count = 1, !.spectral_flatness = 100,
        !.integrated_lufs = IF lufs THEN NegInf ELSE 0,
        !.true_peak_db = IF lufs THEN NegInf ELSE 0 ]

Candidates(lufs) ==
    { CleanMix(lufs), DualMonoMix(lufs), GappyMix(lufs), SpikyMix(lufs),
      SilentTrack(lufs) }

\* quality_analyzer.analyze(audio): the measurements of the buffer, scored
Analyze(m, th, lufs) == CalculateScore(m, th, lufs)

\* faulty variant: one iteration too many
LoopHasNextOffByOne(a) == a <= max_regeneration_attempts

\* `for attempt in range(self.max_regeneration_attempts)`: another iteration?
LoopHasNext(a) == a < max_regeneration_attempts

\* faulty variant: every candidate replaces the best one
IsBetterAlways(score, best) == TRUE

\* faulty variant: the last candidate at least as good replaces the best one
IsBetterOrEqual(score, best) == score >= best

\* `if report.overall_score > best_score`
IsBetter(score, best) == score > best

\* faulty variant: a passing attempt does not end the loop
BreakOnPassNever(rep) == FALSE

\* `if report.passed: break`
BreakOnPass(rep) == rep.passed

\* faulty variant: the repair is driven by the last in-loop report
FixReportLast(best, last) == last

\* the report handed to _apply_intelligent_fixes: best_report
FixReport(best, last) == best

\* faulty variant: mastering runs before humanization
StageAfterSwapped(p) ==
    CASE p = "use_best" -> "fixes"
      [] p = "fixes"    -> "master"
      [] p = "master"   -> "humanize"
      [] p = "humanize" -> "final"
      [] p = "final"    -> "return"
      [] p = "return"   -> "done"

\* the statements after the loop, in program order
StageAfter(p) ==
    CASE p = "use_best" -> "fixes"
      [] p = "fixes"    -> "humanize"
      [] p = "humanize" -> "master"
      [] p = "master"   -> "final"
      [] p = "final"    -> "return"
      [] p = "return"   -> "done"

\* faulty variant: the report of the best in-loop candidate is returned
ReturnedReportBest(final, best) == best

\* `return audio, final_report`
ReturnedReport(final, best) == final

\* SilenceFiller.fill_silence_gaps(audio, min_gap_duration = 0.8).  Called on
\* the buffer the report was measured on, it finds the gap of more than 1 s the
\* gate saw (its own detection asks for 0.8 s below 0.0018).  The fill material
\* is a stereo array of shape (n, 2): for a 2-channel buffer it is added into
\* the gap and the result keeps audio.channels; for a 1-channel buffer
\* `samples[start:end] += fill_audio` adds it to a 1-D array and numpy raises
\* ValueError.
FillSilenceGaps(a) ==
    IF a.channels = 1
    THEN Raised("ValueError", "fill_silence_gaps")
    ELSE [a EXCEPT !.ops = Append(@, "fill_silence_gaps")]

\* SilenceFiller.add_continuous_ambience: a 1-channel buffer is stacked to two
\* channels for mixing and the result is built with channels=2, always
AddContinuousAmbience(a) ==
    [a EXCEPT !.ops = Append(@, "add_continuous_ambience"), !.channels = 2]

\* the soft-knee compression of _apply_intelligent_fixes: channels=audio.channels
SoftKneeCompression(a) == [a EXCEPT !.ops = Append(@, "soft_knee_compression")]

\* AudioHumanizer.humanize_audio: channels=audio.channels
HumanizeAudio(a) == [a EXCEPT !.ops = Append(@, "humanize_audio")]

\* AudioHumanizer.add_room_ambience: channels=audio.channels
AddRoomAmbience(a) == [a EXCEPT !.ops = Append(@, "add_room_ambience")]

\* AdvancedMasteringChain.master_audio: a 1-channel input is doubled, processed
\* as two channels and averaged back: channels = 1 if is_mono_input else 2
MasterAudio(a) == [a EXCEPT !.ops = Append(@, "master_audio")]

\* `if report.silence_gap_count > 0 and report.longest_silence_duration > 1.0`
FillerGate(rep) == rep.silence_gap_count > 0 /\ rep.longest_silence_duration > 100

\* `if report.total_silence_percentage > 10.0`
AmbienceGate(rep) == rep.total_silence_percentage > 100

\* `if report.dynamic_range_db > 20.0`
CompressorGate(rep) == rep.dynamic_range_db > 200

\* _apply_intelligent_fixes: the three gated fixes, in program order; an
\* exception raised by one of them leaves the method
ApplyIntelligentFixes(a, rep) ==
    LET a1 == IF FillerGate(rep) THEN FillSilenceGaps(a) ELSE a
        a2 == IF ~IsRaised(a1) /\ AmbienceGate(rep)
              THEN AddContinuousAmbience(a1) ELSE a1
        a3 == IF ~IsRaised(a2) /\ CompressorGate(rep)
              THEN SoftKneeCompression(a2) ELSE a2
    IN  a3

\* faulty variant: the repair is skipped unless mastering is requested too
RunsRepairNeedsMastering(qa, hum, mas, best) ==
    qa /\ mas /\ self_enable_auto_fix /\ best # None

\* `if enable_qa and self.enable_auto_fix and best_report` (a report object is
\* truthy, None is not)
RunsRepair(qa, hum, mas, best) == qa /\ self_enable_auto_fix /\ best # None

\* `if enable_humanization and self.enable_humanization`
RunsHumanization(qa, hum, mas) == hum /\ self_enable_humanization

\* `if enable_mastering and self.enable_mastering`
RunsMastering(qa, hum, mas) == mas /\ self_enable_mastering

\* faulty variant: the final analysis runs without quality control too
RunsFinalAnalysisAlways(qa, hum, mas) == TRUE

\* `if enable_qa:` before the final analysis
RunsFinalAnalysis(qa, hum, mas) == qa

\* Every processing step takes an AudioSegment (16-bit samples), works on
\* samples / 2**15 and ends with np.clip(x, -1.0, 1.0) followed by
\* (x * 2**15).astype(np.int16):
\*   SilenceFiller.fill_silence_gaps, SilenceFiller.add_continuous_ambience
FillerClips(op) == op \in {"fill_silence_gaps", "add_continuous_ambience"}
\*   the soft-knee compression of _apply_intelligent_fixes
CompressionClips(op) == op = "soft_knee_compression"
\*   AudioHumanizer.humanize_audio, AudioHumanizer.add_room_ambience
HumanizerClips(op) == op \in {"humanize_audio", "add_room_ambience"}
\*   AdvancedMasteringChain.master_audio
MasteringClips(op) == op = "master_audio"

\* the step clips to [-1, 1] and converts the buffer to fixed point
ClipsAndQuantizes(op) ==
    FillerClips(op) \/ CompressionClips(op) \/ HumanizerClips(op) \/ MasteringClips(op)

CountOf(seq, op) == Cardinality({i \in 1..Len(seq) : seq[i] = op})

Init ==
    /\ ScoreIdle /\ LimIdle /\ MeasureIdle /\ StageIdle
    /\ thresholds = DefaultThresholds
    /\ lufs_available \in BOOLEAN
    /\ enable_qa \in BOOLEAN
    /\ enable_humanization \in BOOLEAN
    /\ enable_mastering \in BOOLEAN
    /\ best_audio = None /\ best_report = None /\ best_score = -100
    /\ attempt = 0
    /\ pc = IF LoopHasNext(0) THEN "synth" ELSE "use_best"
    /\ audio = None /\ report = None /\ final_report = None /\ result = None
    /\ calls = <<>> /\ attempts = <<>> /\ fixed_with = None

\* Stage 1: audio = self._compile_composition_base(...), here a 2-channel mix;
\* without quality control the else branch keeps the buffer and leaves the loop
Synthesize ==
    /\ pc = "synth"
    /\ \E m \in Candidates(lufs_available) :
         audio' = [id |-> CountOf(calls, "synth") + 1, m |-> m, ops |-> <<>>,
                   channels |-> 2]
    /\ calls' = Append(calls, "synth")
    /\ IF enable_qa
       THEN /\ pc' = "analyze"
            /\ UNCHANGED <<best_audio, best_report>>
       ELSE /\ best_audio' = audio'
            /\ best_report' = None
            /\ pc' = "use_best"
    /\ UNCHANGED <<enable_qa, enable_humanization, enable_mastering, attempt, report,
                   best_score, final_report, result, attempts, fixed_with,
                   anaVars, scoreVars, limVars,
                   stageVars>>

\* Stage 2: analyze, keep the best, stop on a pass, otherwise adjust and go on
AnalyzeAttempt ==
    /\ pc = "analyze"
    /\ LET rep == Analyze(audio.m, thresholds, lufs_available)
       IN  /\ report' = rep
           /\ attempts' = Append(attempts, [id |-> audio.id, report |-> rep])
           /\ IF IsBetter(rep.overall_score, best_score)
              THEN /\ best_score' = rep.overall_score
                   /\ best_audio' = audio
                   /\ best_report' = rep
              ELSE UNCHANGED <<best_score, best_audio, best_report>>
           /\ IF BreakOnPass(rep)
              THEN /\ calls' = Append(calls, "analyze")
                   /\ pc' = "use_best"
                   /\ UNCHANGED attempt
              ELSE /\ calls' = calls \o <<"analyze", "adjust">>
                   /\ attempt' = attempt + 1
                   /\ pc' = IF LoopHasNext(attempt + 1) THEN "synth" ELSE "use_best"
    /\ UNCHANGED <<enable_qa, enable_humanization, enable_mastering, audio,
                   final_report, result, fixed_with, anaVars, scoreVars, limVars,
                   stageVars>>

\* `audio = best_audio`
UseBest ==
    /\ pc = "use_best"
    /\ audio' = best_audio
    /\ pc' = StageAfter(pc)
    /\ UNCHANGED <<enable_qa, enable_humanization, enable_mastering, attempt, report,
                   best_audio, best_report, best_score, final_report, result, calls,
                   attempts, fixed_with, anaVars, scoreVars, limVars,
                   stageVars>>

\* Stage 3: intelligent fixes (best_report is truthy unless it is None)
IntelligentFixes ==
    /\ pc = "fixes"
    /\ IF RunsRepair(enable_qa, enable_humanization, enable_mastering, best_report)
       THEN /\ audio' = ApplyIntelligentFixes(audio, FixReport(best_report, report))
            /\ fixed_with' = [id |-> audio.id, report |-> FixReport(best_report, report)]
            /\ calls' = Append(calls, "fixes")
       ELSE UNCHANGED <<audio, fixed_with, calls>>
    /\ pc' = StageAfter(pc)
    /\ UNCHANGED <<enable_qa, enable_humanization, enable_mastering, attempt, report,
                   best_audio, best_report, best_score, final_report, result,
                   attempts, anaVars, scoreVars, limVars,
                   stageVars>>

\* Stage 4: humanizer.humanize_audio, then humanizer.add_room_ambience
Humanize ==
    /\ pc = "humanize"
    /\ IF RunsHumanization(enable_qa, enable_humanization, enable_mastering)
       THEN /\ audio' = AddRoomAmbience(HumanizeAudio(audio))
            /\ calls' = calls \o <<"humanize", "room_ambience">>
       ELSE UNCHANGED <<audio, calls>>
    /\ pc' = StageAfter(pc)
    /\ UNCHANGED <<enable_qa, enable_humanization, enable_mastering, attempt, report,
                   best_audio, best_report, best_score, final_report, result,
                   attempts, fixed_with, anaVars, scoreVars, limVars,
                   stageVars>>

\* Stage 5: mastering.master_audio
Master ==
    /\ pc = "master"
    /\ IF RunsMastering(enable_qa, enable_humanization, enable_mastering)
       THEN /\ audio' = MasterAudio(audio)
            /\ calls' = Append(calls, "master")
       ELSE UNCHANGED <<audio, calls>>
    /\ pc' = StageAfter(pc)
    /\ UNCHANGED <<enable_qa, enable_humanization, enable_mastering, attempt, report,
                   best_audio, best_report, best_score, final_report, result,
                   attempts, fixed_with, anaVars, scoreVars, limVars,
                   stageVars>>

\* Final quality analysis, or the placeholder report without quality control.
\* A buffer no stage has touched measures as it did; a processed one may
\* measure as any of the candidates.
FinalAnalysis ==
    /\ pc = "final"
    /\ IF RunsFinalAnalysis(enable_qa, enable_humanization, enable_mastering)
       THEN /\ \E m \in (IF audio.ops = <<>> THEN {audio.m}
                         ELSE Candidates(lufs_available)) :
                 final_report' = Analyze(m, thresholds, lufs_available)
            /\ calls' = Append(calls, "final_analyze")
       ELSE /\ final_report' = [FreshReport EXCEPT !.overall_score = 10000,
                                                   !.passed = TRUE]
            /\ UNCHANGED calls
    /\ pc' = StageAfter(pc)
    /\ UNCHANGED <<enable_qa, enable_humanization, enable_mastering, attempt, audio,
                   report, best_audio, best_report, best_score, result, attempts,
                   fixed_with, anaVars, scoreVars, limVars,
                   stageVars>>

\* `return audio, final_report`
Return ==
    /\ pc = "return"
    /\ result' = [audio |-> audio, report |-> ReturnedReport(final_report, best_report)]
    /\ pc' = StageAfter(pc)
    /\ UNCHANGED <<enable_qa, enable_humanization, enable_mastering, attempt, audio,
                   report, best_audio, best_report, best_score, final_report, calls,
                   attempts, fixed_with, anaVars, scoreVars, limVars,
                   stageVars>>

Next ==
    \/ Synthesize
    \/ AnalyzeAttempt
    \/ UseBest
    \/ IntelligentFixes
    \/ Humanize
    \/ Master
    \/ FinalAnalysis
    \/ Return

Spec == Init /\ [][Next]_vars

\* the method is ordinary sequential code: it keeps running until it returns
FairSpec == Spec /\ WF_vars(Next)

InLoop == pc \in {"synth", "analyze"}

\* position of the first call `op` in the call history (0 when absent)
FirstCall(op) ==
    IF \E i \in 1..Len(calls) : calls[i] = op
    THEN CHOOSE i \in 1..Len(calls) :
           calls[i] = op /\ \A j \in 1..(i - 1) : calls[j] # op
    ELSE 0

\* C1: with quality control enabled the loop makes at most
\* max_regeneration_attempts synthesis calls, is always left, and a non-null
\* best candidate reaches the later stages and the caller even when no attempt
\* passed; the request always runs to its return
C1_LoopTerminates ==
    /\ [](enable_qa => CountOf(calls, "synth") <= max_regeneration_attempts)
    /\ [](enable_qa /\ ~InLoop => best_audio # None /\ best_report # None)
    /\ [](enable_qa /\ pc \notin {"synth", "analyze", "use_best"} => audio # None)
    /\ [](pc = "done" => result # None /\ result.audio # None)
    /\ <>(~InLoop)
    /\ <>(pc = "done")

\* a request that returned after max_regeneration_attempts failed attempts
C1_Witness ==
    /\ enable_qa /\ pc = "done"
    /\ Len(attempts) = max_regeneration_attempts
    /\ CountOf(calls, "synth") = max_regeneration_attempts
    /\ \A i \in 1..Len(attempts) : ~attempts[i].report.passed
    /\ result.audio # None

\* C2: after the loop the candidate carried forward is the attempt with the
\* highest overall_score, and among equal highest scores the earliest one
C2_BestIsEarliestMax ==
    enable_qa /\ ~InLoop =>
      /\ \E i \in 1..Len(attempts) :
           /\ attempts[i].id = best_audio.id
           /\ best_report = attempts[i].report
           /\ \A j \in 1..Len(attempts) :
                /\ attempts[j].report.overall_score <= attempts[i].report.overall_score
                /\ j < i => attempts[j].report.overall_score
                              < attempts[i].report.overall_score
      /\ pc # "use_best" => audio.id = best_audio.id

\* the best candidate is the second of five: the first and the last score
\* lower, a later one ties with it
C2_Witness ==
    /\ enable_qa /\ pc = "done"
    /\ Len(attempts) = 5
    /\ best_audio.id = 2 /\ result.audio.id = 2
    /\ attempts[1].report.overall_score < attempts[2].report.overall_score
    /\ attempts[4].report.overall_score = attempts[2].report.overall_score
    /\ attempts[5].report.overall_score < attempts[2].report.overall_score

\* C3: once an attempt's report has passed, no further synthesis call and no
\* further in-loop analysis is made: the passing attempt is the last one analyzed
\* and its synthesis call is the last one made
C3_StopOnPass ==
    \A i \in 1..Len(attempts) :
      attempts[i].report.passed =>
        /\ i = Len(attempts)
        /\ CountOf(calls, "synth") = i
        /\ CountOf(calls, "analyze") = i
        /\ ~InLoop

\* the first attempt passed with four attempts left, and the request returned
C3_Witness ==
    /\ enable_qa /\ pc = "done"
    /\ Len(attempts) = 1 /\ attempts[1].report.passed
    /\ CountOf(calls, "synth") = 1
    /\ max_regeneration_attempts - Len(attempts) = 4

\* C4: with quality control enabled the final analysis runs exactly once, as the
\* last call of the request, whatever its verdict, and its report is the one
\* returned
C4_FinalAnalysisLast ==
    /\ CountOf(calls, "final_analyze") <= 1
    /\ CountOf(calls, "final_analyze") = 1 =>
         /\ calls[Len(calls)] = "final_analyze"
         /\ pc \in {"return", "done"}
    /\ enable_qa /\ pc = "done" =>
         /\ CountOf(calls, "final_analyze") = 1
         /\ result.report = final_report

\* a returned request whose final report failed and differs from the best
\* in-loop report
C4_Witness ==
    /\ enable_qa /\ pc = "done"
    /\ calls[Len(calls)] = "final_analyze"
    /\ ~final_report.passed
    /\ best_report.passed
    /\ result.report = final_report

StageRank(op) ==
    CASE op \in {"synth", "analyze", "adjust"} -> 1
      [] op = "fixes" -> 2
      [] op \in {"humanize", "room_ambience"} -> 3
      [] op = "master" -> 4
      [] op = "final_analyze" -> 5

\* C5: the calls of one request are made in the order loop (synthesis, then
\* analysis, per attempt) -> repair -> humanization -> mastering -> final
\* analysis, and no stage after the loop runs twice
C5_StageOrder ==
    /\ \A i \in 1..(Len(calls) - 1) : StageRank(calls[i]) <= StageRank(calls[i + 1])
    /\ \A op \in {"fixes", "humanize", "room_ambience", "master", "final_analyze"} :
         CountOf(calls, op) <= 1
    /\ \A i \in 1..Len(calls) :
         /\ calls[i] = "analyze" => (i > 1 /\ calls[i - 1] = "synth")
         /\ calls[i] = "synth" => (i = 1 \/ calls[i - 1] = "adjust")
         /\ calls[i] = "room_ambience" => (i > 1 /\ calls[i - 1] = "humanize")

\* a returned request that ran every stage
C5_Witness ==
    /\ pc = "done"
    /\ Len(attempts) >= 2
    /\ \A op \in {"fixes", "humanize", "room_ambience", "master", "final_analyze"} :
         CountOf(calls, op) = 1

\* C6: the repair runs at most once, on the best candidate and with the report
\* stored for that candidate in the loop, and no analysis is made between the
\* loop and the repair
C6_RepairOnceWithStoredReport ==
    /\ CountOf(calls, "fixes") <= 1
    /\ (fixed_with # None) <=> (CountOf(calls, "fixes") = 1)
    /\ fixed_with # None =>
         /\ fixed_with.id = best_audio.id
         /\ \E i \in 1..Len(attempts) :
              /\ attempts[i].id = fixed_with.id
              /\ attempts[i].report = fixed_with.report
         /\ calls[FirstCall("fixes") - 1] \in {"analyze", "adjust"}
         /\ Cardinality({i \in 1..FirstCall("fixes") : calls[i] = "analyze"})
              = Len(attempts)

\* the repair ran on the first of several candidates, whose report differs from
\* the last in-loop report
C6_Witness ==
    /\ fixed_with # None
    /\ Len(attempts) >= 2
    /\ fixed_with.id = 1
    /\ fixed_with.report # report
    /\ "fill_silence_gaps" \in {audio.ops[i] : i \in 1..Len(audio.ops)}

\* the steps applied to a buffer that clip and requantize it
ClippingSteps(ops) == {i \in 1..Len(ops) : ClipsAndQuantizes(ops[i])}

\* C11: over one request the samples are clipped to [-1, 1] and converted to
\* fixed point only once, by the last step before the buffer is returned for
\* export; every earlier step hands on an unclipped floating-point buffer
C11_ClipOnceBeforeExport ==
    pc = "done" =>
      /\ Cardinality(ClippingSteps(result.audio.ops)) <= 1
      /\ \A i \in ClippingSteps(result.audio.ops) : i = Len(result.audio.ops)

SynthCallsUpTo(i) == Cardinality({j \in 1..i : calls[j] = "synth"})

\* C21: _adjust_generation_parameters is called only after an attempt that did
\* not pass while another attempt remains, every such call is followed by a
\* synthesis call for the next attempt, and none is made after the last allowed
\* attempt
C21_PerturbOnlyOnRetry ==
    \A i \in 1..Len(calls) :
      calls[i] = "adjust" =>
        /\ i > 1 /\ calls[i - 1] = "analyze"
        /\ ~attempts[SynthCallsUpTo(i)].report.passed
        /\ SynthCallsUpTo(i) < max_regeneration_attempts
        /\ IF i < Len(calls) THEN calls[i + 1] = "synth" ELSE pc = "synth"

\* C25: when the loop was left because an attempt passed, the best candidate is
\* that attempt, the last one synthesized, with its report, and
\* best_report.passed is true
C25_PassingAttemptIsBest ==
    ( /\ enable_qa /\ ~InLoop /\ Len(attempts) >= 1
      /\ attempts[Len(attempts)].report.passed ) =>
      /\ best_audio.id = attempts[Len(attempts)].id
      /\ best_audio.id = CountOf(calls, "synth")
      /\ best_report = attempts[Len(attempts)].report
      /\ best_report.passed
      /\ pc # "use_best" => audio.id = best_audio.id

\* the third attempt passed after two failed ones, and it is the candidate
\* the request returned
C25_Witness ==
    /\ enable_qa /\ pc = "done"
    /\ Len(attempts) = 3
    /\ ~attempts[1].report.passed /\ ~attempts[2].report.passed
    /\ attempts[3].report.passed
    /\ attempts[1].report.overall_score > attempts[2].report.overall_score
    /\ best_audio.id = 3 /\ best_report.passed /\ result.audio.id = 3

\* C26: with quality control, after every iteration best_audio and best_report
\* come from the same attempt, best_score is best_report.overall_score and at
\* least the score of every attempt analyzed so far, and best_score never
\* decreases
C26_BestConsistent ==
    /\ [](enable_qa /\ Len(attempts) >= 1 =>
            /\ \E i \in 1..Len(attempts) :
                 /\ attempts[i].id = best_audio.id
                 /\ attempts[i].report = best_report
            /\ best_report = Analyze(best_audio.m, thresholds, lufs_available)
            /\ best_score = best_report.overall_score
            /\ \A j \in 1..Len(attempts) :
                 attempts[j].report.overall_score <= best_score)
    /\ [][best_score' >= best_score]_vars

\* three attempts analyzed, the best one the second, the third scoring lower
C26_Witness ==
    /\ enable_qa /\ pc = "synth"
    /\ Len(attempts) = 3
    /\ best_audio.id = 2
    /\ attempts[1].report.overall_score < best_score
    /\ attempts[3].report.overall_score < best_score
    /\ best_score = attempts[2].report.overall_score

\* C29: without quality control the request makes one synthesis call, calls
\* neither the analyzer nor the repair, and returns the buffer with a
\* placeholder report of overall_score 100 and passed = true
C29_NoQualityControl ==
    ~enable_qa =>
      /\ CountOf(calls, "synth") <= 1
      /\ \A op \in {"analyze", "adjust", "fixes", "final_analyze"} :
           CountOf(calls, op) = 0
      /\ attempts = <<>> /\ best_report = None /\ fixed_with = None
      /\ pc = "done" =>
           /\ CountOf(calls, "synth") = 1
           /\ max_regeneration_attempts > 1
           /\ result.audio.id = 1
           /\ result.report.overall_score = 10000
           /\ result.report.passed
           /\ result.report =
                [FreshReport EXCEPT !.overall_score = 10000, !.passed = TRUE]

\* a request without quality control, humanized and mastered, that returned
C29_Witness ==
    /\ ~enable_qa /\ enable_humanization /\ enable_mastering
    /\ pc = "done"
    /\ calls = <<"synth", "humanize", "room_ambience", "master">>
    /\ result.report.passed /\ result.report.overall_score = 10000

(***************************************************************************)
(* ScoreSpec: _calculate_score applied to reports whose metrics range over *)
(* values below, at and above every threshold                              *)
(***************************************************************************)

ClippingValues    == {0, 1, 2, 50, 50000, 100000}
SilenceValues     == {0, 60, 130, 1000}
LongSilenceValues == {0, 120, 1000}
\* <<peak_level_db, rms_level_db>>: silent, normal, quiet, hot, saturated, spiky
LevelPairs        == { <<-2000, -2000>>, <<-60, -150>>, <<-60, -300>>,
                       <<0, -150>>, <<0, 0>>, <<-30, -300>> }
FlatnessValues    == {0, 100}
PhaseValues       == {0, 100}
WidthValues       == {0, 500}
LufsValues        == {NegInf, 0, -140, -30}
TruePeakValues    == {NegInf, -10, 30}

\* what the measuring steps of analyze can leave in one report:
\*   _analyze_levels    dynamic_range_db = peak_level_db - rms_level_db
\*   _analyze_clipping  a sample with |x| >= 0.99 exists iff the peak is 0 dB
\*   _analyze_silence_gaps  every sample is silent iff the peak is below -60 dB;
\*                      a recorded gap implies silent samples
\*   _analyze_lufs      runs only with the meter present (otherwise both fields
\*                      keep their initial 0.0); true peak is -inf only for an
\*                      all-zero buffer
Measurable(r, lufs) ==
    /\ r.dynamic_range_db = r.peak_level_db - r.rms_level_db
    /\ (r.clipping_percentage > 0) <=> (r.peak_level_db >= 0)
    /\ (r.total_silence_percentage = 1000) <=> (r.peak_level_db < -600)
    /\ r.longest_silence_duration > 0 => r.total_silence_percentage > 0
    /\ r.silence_gap_count = (IF r.longest_silence_duration > 0 THEN 1 ELSE 0)
    /\ ~lufs => (r.integrated_lufs = 0 /\ r.true_peak_db = 0)
    /\ lufs => (r.true_peak_db = NegInf => r.peak_level_db < -600)

MeasuredReports(lufs) ==
    { r \in
        { [ FreshReport EXCEPT
              !.clipping_percentage = c, !.total_silence_percentage = s,
              !.longest_silence_duration = g,
              !.silence_gap_count = IF g > 0 THEN 1 ELSE 0,
              !.peak_level_db = lv[1], !.rms_level_db = lv[2],
              !.dynamic_range_db = lv[1] - lv[2],
              !.spectral_flatness = f, !.phase_correlation = ph,
              !.stereo_width = w,
              !.integrated_lufs = l, !.true_peak_db = t ] :
            c \in ClippingValues, s \in SilenceValues, g \in LongSilenceValues,
            lv \in LevelPairs, f \in FlatnessValues, ph \in PhaseValues,
            w \in WidthValues,
            l \in (IF lufs THEN LufsValues ELSE {0}),
            t \in (IF lufs THEN TruePeakValues ELSE {0}) } :
        Measurable(r, lufs) }

ScoreInit ==
    /\ CtlIdle /\ LimIdle /\ MeasureIdle /\ StageIdle
    /\ thresholds \in Profiles
    /\ lufs_available \in BOOLEAN
    /\ qreport \in MeasuredReports(lufs_available)
    /\ qpc = "measured"

\* step 7 of analyze: self._calculate_score(report)
Score ==
    /\ qpc = "measured"
    /\ qreport' = CalculateScore(qreport, thresholds, lufs_available)
    /\ qpc' = "scored"
    /\ UNCHANGED <<ctlVars, anaVars, limVars, stageVars>>

ScoreNext == Score

ScoreSpec == ScoreInit /\ [][ScoreNext]_vars

\* C7: every report scored by _calculate_score has overall_score in [0, 100]
C7_ScoreInRange ==
    qpc = "scored" => (qreport.overall_score >= 0 /\ qreport.overall_score <= 10000)

\* the scored report of an all-silent buffer: its penalties add up to more
\* than 100 points and the score is 0
C7_Witness ==
    /\ qpc = "scored"
    /\ qreport.peak_level_db = -2000 /\ qreport.total_silence_percentage = 1000
    /\ qreport.integrated_lufs = NegInf /\ qreport.true_peak_db = NegInf
    /\ TotalPenalty(qreport, thresholds, lufs_available) > 10000
    /\ qreport.overall_score = 0

\* C8: with every other metric fixed, a larger clipping_percentage never gives
\* a higher overall_score, and neither does a larger total_silence_percentage
C8_ScoreMonotone ==
    qpc = "scored" =>
      /\ \A c \in ClippingValues :
            c >= qreport.clipping_percentage =>
              CalculateScore([qreport EXCEPT !.clipping_percentage = c],
                             thresholds, lufs_available).overall_score
                <= qreport.overall_score
      /\ \A s \in SilenceValues :
            s >= qreport.total_silence_percentage =>
              CalculateScore([qreport EXCEPT !.total_silence_percentage = s],
                             thresholds, lufs_available).overall_score
                <= qreport.overall_score

\* a scored report that more clipping, and more silence, would score strictly lower
C8_Witness ==
    /\ qpc = "scored"
    /\ qreport.overall_score > 0
    /\ \E c \in ClippingValues :
          /\ c > qreport.clipping_percentage
          /\ CalculateScore([qreport EXCEPT !.clipping_percentage = c],
                            thresholds, lufs_available).overall_score
               < qreport.overall_score
    /\ \E s \in SilenceValues :
          /\ s > qreport.total_silence_percentage
          /\ CalculateScore([qreport EXCEPT !.total_silence_percentage = s],
                            thresholds, lufs_available).overall_score
               < qreport.overall_score

\* C9 as claimed: passed = (overall_score >= passing score of the active profile)
C9_PassedPerProfile ==
    qpc = "scored" =>
      (qreport.passed <=> qreport.overall_score >= ProfilePassingScore(thresholds))

\* C9 amended: passed = (overall_score >= 85), whichever thresholds are in force
C9_PassedAt85 ==
    qpc = "scored" => (qreport.passed <=> qreport.overall_score >= 8500)

\* a report scored under the relaxed thresholds at 60 or more but below 85: failed
C9_Witness ==
    /\ qpc = "scored"
    /\ thresholds = RelaxedThresholds
    /\ qreport.overall_score >= 6000 /\ qreport.overall_score < 8500
    /\ qreport.passed = FALSE

(***************************************************************************)
(* AdvancedMasteringChain: Pass 5, _intelligent_limiting and _apply_limiter *)
(* Samples are in 0.001 of full scale (1000 = 1.0), gains in 0.0001.       *)
(* Every division truncates toward zero, so a modelled output magnitude is *)
(* never larger than the one the floating-point code computes.             *)
(***************************************************************************)

\* self.sample_rate of the mastering chain (a constructor argument)
SampleRate == 1000
\* longest channel drawn
MaxSignalLen == 6
\* the samples a channel is drawn from: quiet (0.1) and loud (-2.0)
SampleValues == {100, -2000}

Sign(x) == IF x < 0 THEN -1 ELSE 1
\* x * num / den on magnitudes, truncated
Scale(x, num, den) == Sign(x) * ((Abs(x) * num) \div den)

RECURSIVE SumSq(_)
SumSq(sig) == IF sig = <<>> THEN 0 ELSE Head(sig) * Head(sig) + SumSq(Tail(sig))

RECURSIVE SqrtIn(_, _, _)
SqrtIn(v, lo, hi) ==
    IF lo >= hi THEN lo
    ELSE LET mid == (lo + hi + 1) \div 2
         IN  IF mid * mid <= v THEN SqrtIn(v, mid, hi) ELSE SqrtIn(v, lo, mid - 1)

\* floor of the square root
Sqrt(v) == SqrtIn(v, 0, 46340)

\* np.sqrt(np.mean(x**2))
Rms(sig) == Sqrt(SumSq(sig) \div Len(sig))

RECURSIVE MaxAbs(_)
MaxAbs(sig) == IF sig = <<>> THEN 0 ELSE Max(Abs(Head(sig)), MaxAbs(Tail(sig)))

\* the literals of _intelligent_limiting and _apply_limiter
Ceiling == 950
MaxGainLinear == 3000
GainOne == 10000
\* 10 ** ((target_lufs + 23) / 20) for target_lufs = -11.0, times 1000:
\* gain_linear = 10 ** ((target_lufs - (20*log10(rms) - 23)) / 20)
\*             = 10 ** ((target_lufs + 23) / 20) / rms
TargetGainTimesRms == 3981

\* int(0.005 * sr), int(0.001 * sr), int(0.050 * sr)
LookaheadSamples == (5 * SampleRate) \div 1000
AttackSamples == SampleRate \div 1000
ReleaseSamples == (50 * SampleRate) \div 1000

\* alpha = 1.0 - np.exp(-1.0 / n), in 0.0001: 0.6321 for n = 1, 0.0198 for
\* n = 50; 1/n to first order otherwise
Alpha(n) ==
    CASE n = 1 -> 6321
      [] n = 50 -> 198
      [] OTHER -> GainOne \div n

\* np.pad(signal_data, (lookahead, lookahead), mode='edge')
Pad(sig, k) ==
    [i \in 1..(Len(sig) + 2 * k) |->
        IF i <= k THEN sig[1]
        ELSE IF i > k + Len(sig) THEN sig[Len(sig)]
        ELSE sig[i - k]]

\* the first loop: gain[i+lookahead] = ceiling / peak where the window
\* padded[i : i + 2*lookahead] peaks above the ceiling, 1.0 elsewhere
RawGain(padded, n, ceiling, k) ==
    [j \in 1..Len(padded) |->
        IF j > k /\ j <= k + n
        THEN LET i == j - k - 1
                 peak == MaxAbs(SubSeq(padded, i + 1, i + 2 * k))
             IN  IF peak > ceiling THEN (ceiling * GainOne) \div peak ELSE GainOne
        ELSE GainOne]

\* the second loop: one-pole smoothing with the attack coefficient while the
\* gain falls and the release coefficient otherwise
RECURSIVE SmoothGain(_, _)
SmoothGain(gain, n) ==
    IF n = 1 THEN <<gain[1]>>
    ELSE LET prev == SmoothGain(gain, n - 1)
             alpha == IF gain[n] < prev[n - 1] THEN Alpha(AttackSamples)
                      ELSE Alpha(ReleaseSamples)
         IN  Append(prev, (alpha * gain[n] + (GainOne - alpha) * prev[n - 1])
                            \div GainOne)

\* _apply_limiter(signal_data, ceiling, lookahead)
ApplyLimiter(sig, ceiling, k) ==
    LET padded == Pad(sig, k)
        gain == RawGain(padded, Len(sig), ceiling, k)
        smooth == SmoothGain(gain, Len(padded))
    IN  [j \in 1..Len(sig) |-> Scale(padded[k + j], smooth[k + j], GainOne)]

\* gain_linear = min(10 ** (gain_db / 20.0), 3.0); the 1e-10 added to the RMS
\* only matters for rms = 0, where the quotient is far above 3.0
PreGain(l, r) ==
    LET rms == (Rms(l) + Rms(r)) \div 2
    IN  IF rms = 0 THEN MaxGainLinear
        ELSE Min((TargetGainTimesRms * 1000) \div rms, MaxGainLinear)

\* _intelligent_limiting(left, right, target_lufs = -11.0): <<left, right>>
IntelligentLimiting(l, r) ==
    LET g == PreGain(l, r)
        gl == [i \in 1..Len(l) |-> Scale(l[i], g, 1000)]
        gr == [i \in 1..Len(r) |-> Scale(r[i], g, 1000)]
    IN  << ApplyLimiter(gl, Ceiling, LookaheadSamples),
           ApplyLimiter(gr, Ceiling, LookaheadSamples) >>

\* the coefficients b0, b1, b2, a1, a2 of _final_polish (high shelf, 12 kHz,
\* q = 0.7, +0.5 dB), divided by a0, in 0.0001, for the sample rates used:
\*   w0 = 2 pi 12000 / sr, A = 10 ** (0.5 / 40), alpha = sin(w0) / (2 q)
ShelfCoefficients(sr) ==
    CASE sr = 1000  -> <<10593, -21185, 10593, -20000, 10000>>
      [] sr = 1001  -> <<10609, -22343, 11796, -21092, 11153>>
      [] sr = 1002  -> <<10625, -23498, 13134, -22176, 12437>>
      [] sr = 44100 -> <<10268, 1494, 1750, 1789, 1724>>
      [] sr = 48000 -> <<10292, -173, 1716, 168, 1667>>
      [] sr = 96000 -> <<10432, -9935, 3478, -9268, 3243>>

\* signal.lfilter(b, a, x) for a second-order section, from rest:
\* y[n] = b0 x[n] + b1 x[n-1] + b2 x[n-2] - a1 y[n-1] - a2 y[n-2]
RECURSIVE LFilter(_, _, _)
LFilter(c, x, n) ==
    IF n = 0 THEN <<>>
    ELSE LET y == LFilter(c, x, n - 1)
             x1 == IF n >= 2 THEN x[n - 1] ELSE 0
             x2 == IF n >= 3 THEN x[n - 2] ELSE 0
             y1 == IF n >= 2 THEN y[n - 1] ELSE 0
             y2 == IF n >= 3 THEN y[n - 2] ELSE 0
             acc == c[1] * x[n] + c[2] * x1 + c[3] * x2 - c[4] * y1 - c[5] * y2
         IN  Append(y, Sign(acc) * (Abs(acc) \div GainOne))

\* _final_polish, one channel
FinalPolish(sig) == LFilter(ShelfCoefficients(SampleRate), sig, Len(sig))

\* _apply_dither: two uniform draws of amplitude 2 ** -16 are added to every
\* sample; their sum is below 0.00002, far inside one unit of 0.001
ApplyDither(sig) == sig

\* np.clip(output, -1.0, 1.0); the conversion to int16 is finer than 0.001
ClipToFullScale(sig) == [j \in 1..Len(sig) |-> Max(-1000, Min(1000, sig[j]))]

\* Pass 6 and the conversion of a 2-channel buffer, one channel
PolishAndConvert(sig) == ClipToFullScale(ApplyDither(FinalPolish(sig)))

\* a steady signal at 0.31, which the pre-gain of 3.0 brings to 0.93
SteadySignal(n) == [i \in 1..n |-> 310]

\* the channels drawn, n samples long
ChannelSignals(n) == [1..n -> SampleValues] \cup {SteadySignal(n)}

LimiterInit ==
    /\ CtlIdle /\ ScoreIdle /\ MeasureIdle /\ StageIdle
    /\ thresholds = DefaultThresholds /\ lufs_available = TRUE
    /\ \E n \in 1..MaxSignalLen :
         /\ left \in ChannelSignals(n)
         /\ right \in ChannelSignals(n)
    /\ out_left = <<>> /\ out_right = <<>>
    /\ fin_left = <<>> /\ fin_right = <<>>
    /\ lpc = "pass5"

\* Pass 5 of master_audio
Limit ==
    /\ lpc = "pass5"
    /\ LET out == IntelligentLimiting(left, right)
       IN  out_left' = out[1] /\ out_right' = out[2]
    /\ lpc' = "limited"
    /\ UNCHANGED <<left, right, fin_left, fin_right, ctlVars, anaVars, scoreVars,
                   stageVars>>

\* Pass 6 of master_audio (_final_polish, _apply_dither) and the conversion of
\* the result to the AudioSegment returned
Polish ==
    /\ lpc = "limited"
    /\ fin_left' = PolishAndConvert(out_left)
    /\ fin_right' = PolishAndConvert(out_right)
    /\ lpc' = "mastered"
    /\ UNCHANGED <<left, right, out_left, out_right, ctlVars, anaVars, scoreVars,
                   stageVars>>

LimiterNext ==
    \/ Limit
    \/ Polish

LimiterSpec == LimiterInit /\ [][LimiterNext]_vars

\* C10: after the limiting pass every output sample satisfies |sample| <= ceiling
C10_LimiterCeiling ==
    lpc = "limited" =>
      /\ \A j \in 1..Len(out_left) : Abs(out_left[j]) <= Ceiling
      /\ \A j \in 1..Len(out_right) : Abs(out_right[j]) <= Ceiling

\* the limiting pass left every sample of both channels at or below the ceiling
LimiterHeldCeiling ==
    /\ \A j \in 1..Len(out_left) : Abs(out_left[j]) <= Ceiling
    /\ \A j \in 1..Len(out_right) : Abs(out_right[j]) <= Ceiling

\* C23: nothing that runs after the limiting pass raises a sample above the
\* ceiling: when the limiter left every sample at or below it, every sample of
\* the buffer master_audio returns is at or below it too
C23_NothingAfterLimiterRaises ==
    (lpc = "mastered" /\ LimiterHeldCeiling) =>
      /\ \A j \in 1..Len(fin_left) : Abs(fin_left[j]) <= Ceiling
      /\ \A j \in 1..Len(fin_right) : Abs(fin_right[j]) <= Ceiling

\* C10, the case of the claim: five quiet samples, then a loud one, which
\* leaves the limiter above the ceiling while the gain is still in its attack
C10_QuietThenLoudLimited ==
    ( /\ lpc = "limited"
      /\ Len(left) = 6
      /\ \A j \in 1..5 : left[j] = 100
      /\ left[6] = -2000 )
    => Abs(out_left[6]) <= Ceiling

(***************************************************************************)
(* AudioQualityAnalyzer.analyze: the measuring steps on a sample buffer    *)
(* Samples are in 0.0001 of full scale (10000 = 1.0).  The spectral steps  *)
(* (STFT, band energies) and the loudness meter are not computed: what     *)
(* they yield for a buffer is part of the buffer drawn (flatness, bands,   *)
(* loudness).                                                              *)
(***************************************************************************)

\* self.sample_rate of the analyzer (a constructor argument)
AnalyzerRate == 2
\* longest buffer drawn, in frames
MaxFrames == 6
\* the samples a channel is drawn from: 0, 0.5 and -1.0
BufferSamples == {0, 5000, -10000}
\* audio.frame_rate: the analyzer's own rate, or a lower one (pydub builds a
\* silent segment at its default rate, below the 96 kHz of the analyzer)
FrameRates == {AnalyzerRate, 1}

\* samples.reshape(-1, 2); mono = (left + right) / 2.0, or the samples themselves
MonoMix(b) ==
    IF b.channels = 2
    THEN [i \in 1..Len(b.left) |-> (b.left[i] + b.right[i]) \div 2]
    ELSE b.left

\* 20 * log10(x / ref) to the nearest 0.1 dB, in 0.1 dB (0 < x <= ref <= 10000):
\* the number of 0.1 dB steps (factor 10 ** -0.005 = 0.9886) from ref down to x,
\* counted from half a step (10 ** -0.0025 = 0.99426) below ref; whole dB
\* (factor 10 ** -0.05 = 0.8913) are stepped over first
RECURSIVE DbFineSteps(_, _, _)
DbFineSteps(x, ref, d) ==
    IF x >= ref THEN d ELSE DbFineSteps(x, (ref * 9886) \div 10000, d - 1)

RECURSIVE DbSteps(_, _, _)
DbSteps(x, ref, d) ==
    LET lower == (ref * 8913) \div 10000
    IN  IF x >= lower THEN DbFineSteps(x, ref, d) ELSE DbSteps(x, lower, d - 10)

DbRatio(x, ref) == DbSteps(x * 10, (ref * 99426) \div 10000, 0)

\* faulty variant: the floor of 1e-10 is left out and silence measures -inf
LevelDbNoFloor(x) == IF x = 0 THEN NegInf ELSE DbRatio(x, 10000)

\* 20 * np.log10(x + 1e-10): -200 dB for x = 0
LevelDb(x) == IF x = 0 THEN -2000 ELSE DbRatio(x, 10000)

\* 20 * np.log10(peak / (rms + 1e-10)): log10(0) = -inf for a zero peak
CrestDb(peak, rms) ==
    IF peak = 0 THEN NegInf ELSE -DbRatio(Max(rms, 1), peak)

\* _analyze_levels
AnalyzeLevels(m, r) ==
    LET peak == MaxAbs(m)
        rms == Rms(m)
    IN  [r EXCEPT !.peak_level_db = LevelDb(peak),
                  !.rms_level_db = LevelDb(rms),
                  !.dynamic_range_db = LevelDb(peak) - LevelDb(rms),
                  !.crest_factor_db = CrestDb(peak, rms)]

\* faulty variant: np.abs is forgotten and negative samples are never counted
CountAtLeastSigned(m, level) == Cardinality({i \in 1..Len(m) : m[i] >= level})

\* np.sum(np.abs(samples) >= threshold)
CountAtLeast(m, level) == Cardinality({i \in 1..Len(m) : Abs(m[i]) >= level})

\* _analyze_clipping: thresholds 0.99 and 0.95
AnalyzeClipping(m, r) ==
    [r EXCEPT !.clipping_percentage = (CountAtLeast(m, 9900) * 100000) \div Len(m),
              !.saturation_count = CountAtLeast(m, 9900),
              !.near_clipping_percentage = (CountAtLeast(m, 9500) * 100000) \div Len(m)]

\* is_silent = np.abs(samples) < 0.001
IsSilent(x) == Abs(x) < 10

\* faulty variant: a run of exactly half a second is recorded too
GapAtLeastHalfSecond(n, rate) == 2 * n >= rate

\* `if silence_duration > 0.5` for a run of n samples: n / rate > 0.5
GapLongEnough(n, rate) == 2 * n > rate

\* (silence_start / self.sample_rate, silence_duration)
Gap(start, n, rate) == << (start * 100) \div rate, (n * 100) \div rate >>

\* one iteration of `for i, silent in enumerate(is_silent)`
SilenceStep(st, i, silent, rate) ==
    IF silent /\ ~st.in_silence
    THEN [st EXCEPT !.in_silence = TRUE, !.silence_start = i]
    ELSE IF ~silent /\ st.in_silence
    THEN [st EXCEPT
            !.in_silence = FALSE,
            !.silent_regions =
                IF GapLongEnough(i - st.silence_start, rate)
                THEN Append(@, Gap(st.silence_start, i - st.silence_start, rate))
                ELSE @]
    ELSE st

\* the loop over the first n samples (i = 0 .. n-1)
RECURSIVE SilenceScan(_, _, _)
SilenceScan(m, n, rate) ==
    IF n = 0
    THEN [in_silence |-> FALSE, silence_start |-> 0, silent_regions |-> <<>>]
    ELSE SilenceStep(SilenceScan(m, n - 1, rate), n - 1, IsSilent(m[n]), rate)

\* silent_regions, after the handling of a buffer that ends in silence
SilentRegions(m, rate) ==
    LET st == SilenceScan(m, Len(m), rate)
    IN  IF st.in_silence /\ GapLongEnough(Len(m) - st.silence_start, rate)
        THEN Append(st.silent_regions,
                    Gap(st.silence_start, Len(m) - st.silence_start, rate))
        ELSE st.silent_regions

RECURSIVE MaxDuration(_)
MaxDuration(regions) ==
    IF regions = <<>> THEN 0 ELSE Max(Head(regions)[2], MaxDuration(Tail(regions)))

\* _analyze_silence_gaps(mono, report, audio.duration_seconds): the durations
\* are counted at self.sample_rate; duration_seconds is not read
AnalyzeSilenceGaps(m, r, rate) ==
    LET regions == SilentRegions(m, rate)
    IN  [r EXCEPT
           !.silence_gaps = regions,
           !.silence_gap_count = Len(regions),
           !.total_silence_percentage =
               (Cardinality({i \in 1..Len(m) : IsSilent(m[i])}) * 1000) \div Len(m),
           !.longest_silence_duration = MaxDuration(regions)]

\* the stereo sums are taken on samples of 0.025 resolution (x / 250), which
\* keeps the products within 32 bits
Coarse(sig) == [i \in 1..Len(sig) |-> sig[i] \div 250]

RECURSIVE SumProd(_, _)
SumProd(a, b) ==
    IF a = <<>> THEN 0 ELSE Head(a) * Head(b) + SumProd(Tail(a), Tail(b))

\* faulty variant: a zero denominator counts as full correlation
PhaseCorrelationOneOnSilence(l, r, initial) ==
    LET numerator == SumProd(Coarse(l), Coarse(r))
        denominator == Sqrt(SumSq(Coarse(l)) * SumSq(Coarse(r)))
    IN  IF denominator > 0 THEN (numerator * 100) \div denominator ELSE 100

\* numerator / denominator `if denominator > 0`; the field keeps its initial
\* value otherwise
PhaseCorrelation(l, r, initial) ==
    LET numerator == SumProd(Coarse(l), Coarse(r))
        denominator == Sqrt(SumSq(Coarse(l)) * SumSq(Coarse(r)))
    IN  IF denominator > 0 THEN (numerator * 100) \div denominator ELSE initial

\* (side_energy / total_energy) * 100 `if total_energy > 0`, with mid and side
\* both doubled (their ratio is the same)
StereoWidth(l, r, initial) ==
    LET mid2 == [i \in 1..Len(l) |-> Coarse(l)[i] + Coarse(r)[i]]
        side2 == [i \in 1..Len(l) |-> Coarse(l)[i] - Coarse(r)[i]]
        total_energy == SumSq(mid2) + SumSq(side2)
    IN  IF total_energy > 0 THEN (SumSq(side2) * 1000) \div total_energy ELSE initial

\* _analyze_stereo
AnalyzeStereo(l, r, rep) ==
    [rep EXCEPT !.stereo_width = StereoWidth(l, r, @),
                !.phase_correlation = PhaseCorrelation(l, r, @)]

\* faulty variant: the stereo measurements are taken on every buffer, with
\* left = right = mono for a 1-channel one
RunsStereoAnalysisAlways(channels) == TRUE

\* `if audio.channels == 2:` before _analyze_stereo
RunsStereoAnalysis(channels) == channels = 2

\* _analyze_lufs: what the meter and the true-peak loop (or the except branch)
\* leave in the report for this buffer
AnalyzeLufs(b, r) ==
    [r EXCEPT !.integrated_lufs = b.loudness[1], !.true_peak_db = b.loudness[2]]

\* _analyze_spectrum: the flatness the STFT of this buffer yields
AnalyzeSpectrum(b, r) == [r EXCEPT !.spectral_flatness = b.flatness]

\* fft_size of _analyze_frequency_balance (8192 in the code), in samples
FftSize == 4
\* hop_size = fft_size // 4
HopSize == FftSize \div 4

\* faulty variant: every complete window is counted, the one ending at the last
\* sample too
NumWindowsInclusive(n) == Max(0, (n - FftSize) \div HopSize + 1)

\* num_windows = (len(samples) - fft_size) // hop_size; range() of a negative
\* number is empty
NumWindows(n) == Max(0, (n - FftSize) \div HopSize)

Sum6(e) == e[1] + e[2] + e[3] + e[4] + e[5] + e[6]

\* _analyze_frequency_balance: the power of each analysed window between
\* 20 Hz and 20 kHz (b.bands, per band) is summed over the windows; the six
\* report fields are set only `if total_energy > 0`
AnalyzeFrequencyBalance(m, b, r) ==
    LET band_energies == [k \in 1..6 |-> NumWindows(Len(m)) * b.bands[k]]
        total_energy == Sum6(band_energies)
    IN  IF total_energy > 0
        THEN [r EXCEPT !.band_energies =
                         [k \in 1..6 |-> (band_energies[k] * 10000) \div total_energy]]
        ELSE r

\* _generate_issues: the issues and warnings appended, as tags
GenerateIssues(r, th) ==
    LET i1 == IF r.clipping_percentage > th.clipping_max_percentage
              THEN <<"CLIPPING DETECTED">> ELSE <<>>
        i2 == IF r.longest_silence_duration > th.silence_max_gap_seconds
              THEN <<"LONG SILENCE GAP">> ELSE <<>>
        i3 == IF r.total_silence_percentage > th.silence_max_percentage
              THEN <<"TOO MUCH SILENCE">> ELSE <<>>
        i4 == IF r.peak_level_db > th.peak_max_db
              THEN <<"PEAK TOO HOT">> ELSE <<>>
        w1 == IF r.dynamic_range_db < th.dynamic_range_min_db
              THEN <<"Low dynamic range">> ELSE <<>>
        w2 == IF r.spectral_flatness < th.spectral_flatness_min
              THEN <<"Sound too synthetic">> ELSE <<>>
        w3 == IF r.phase_correlation < th.phase_correlation_min
              THEN <<"Phase correlation issues">> ELSE <<>>
        w4 == IF r.silence_gap_count > 5
              THEN <<"Multiple silence gaps detected">> ELSE <<>>
    IN  [r EXCEPT !.issues = @ \o i1 \o i2 \o i3 \o i4,
                  !.warnings = @ \o w1 \o w2 \o w3 \o w4]

\* faulty variant: the lists are shared by all reports (a class attribute), so a
\* report starts with what the earlier reports collected
IssuesCarriedOver(earlier) ==
    IF earlier # <<>> /\ ~earlier[Len(earlier)].raised
    THEN earlier[Len(earlier)].report.issues
    ELSE <<>>

\* `self.issues: List[str] = []` in AudioQualityReport.__init__: a new list for
\* every report, whatever the analyzer returned earlier
InitialIssues(earlier) == <<>>

\* AudioQualityReport(): the fields of FreshReport and the other fields the
\* measuring steps set
NewReport(earlier) ==
    FreshReport @@
    [ crest_factor_db |-> 0, saturation_count |-> 0, near_clipping_percentage |-> 0,
      silence_gaps |-> <<>>, band_energies |-> <<0, 0, 0, 0, 0, 0>>,
      issues |-> InitialIssues(earlier), warnings |-> <<>> ]

Returned(r) == [raised |-> FALSE, report |-> r]

\* analyze(audio): np.max of a zero-size array raises ValueError in
\* _analyze_levels, the first step; otherwise steps 1 to 8 run in order
AnalyzeBuffer(b, th, lufs, earlier) ==
    LET mono == MonoMix(b)
        r1 == AnalyzeLevels(mono, NewReport(earlier))
        r2 == AnalyzeClipping(mono, r1)
        r3 == AnalyzeSilenceGaps(mono, r2, AnalyzerRate)
        r4 == IF lufs THEN AnalyzeLufs(b, r3) ELSE r3
        r5 == AnalyzeFrequencyBalance(mono, b, AnalyzeSpectrum(b, r4))
        r6 == IF RunsStereoAnalysis(b.channels)
              THEN AnalyzeStereo(b.left, b.right, r5) ELSE r5
        r7 == CalculateScore(r6, th, lufs)
        r8 == GenerateIssues(r7, th)
    IN  IF Len(mono) = 0
        THEN Raised("ValueError", "_analyze_levels")
        ELSE Returned(r8)

\* the analyze calls made on one buffer
MaxAnalyzeCalls == 2

Zeros(n) == [i \in 1..n |-> 0]
Negated(sig) == [i \in 1..Len(sig) |-> -sig[i]]

\* the channel layouts drawn: a mono segment (left = right = mono), and stereo
\* segments whose right channel repeats, inverts or mutes the left one
ChannelPairs(l) ==
    { [channels |-> 1, left |-> l, right |-> l],
      [channels |-> 2, left |-> l, right |-> l],
      [channels |-> 2, left |-> l, right |-> Negated(l)],
      [channels |-> 2, left |-> l, right |-> Zeros(Len(l))] }

AllZero(sig) == \A i \in 1..Len(sig) : sig[i] = 0

\* spectral_flatness of a buffer and the power of one FFT window in each of
\* the six bands.  For an all-zero mix the power is 0 everywhere and the
\* flatness is 1e-10 / (0 + 1e-10) = 1.  Otherwise: a tonal mix with energy in
\* every band, or a noise-like mix with no energy between 20 Hz and 20 kHz.
SpectralOutcomes(mono) ==
    IF AllZero(mono)
    THEN { [flatness |-> 100, bands |-> <<0, 0, 0, 0, 0, 0>>] }
    ELSE { [flatness |-> 0, bands |-> <<10, 30, 20, 20, 15, 5>>],
           [flatness |-> 100, bands |-> <<0, 0, 0, 0, 0, 0>>] }

\* <<integrated_lufs, true_peak_db>> of a buffer.  Without the meter the fields
\* keep their initial 0.0.  With it: -inf and -inf (`-np.inf`) for channels
\* without any signal, measured values otherwise, or the -14.0 and -1.0 of the
\* except branch when the meter raises.
LoudnessOutcomes(pair, lufs) ==
    IF ~lufs THEN { <<0, 0>> }
    ELSE IF Len(pair.left) = 0 THEN { <<-140, -10>> }
    ELSE IF AllZero(pair.left) /\ AllZero(pair.right)
    THEN { <<NegInf, NegInf>>, <<-140, -10>> }
    ELSE { <<-140, -10>>, <<-30, 30>> }

Buffers(lufs) ==
    { [ channels |-> pair.channels, left |-> pair.left, right |-> pair.right,
        frame_rate |-> fr, flatness |-> sp.flatness, bands |-> sp.bands,
        loudness |-> ld ] :
        pair \in UNION { ChannelPairs(l) :
                           l \in UNION { [1..n -> BufferSamples] : n \in 0..MaxFrames } },
        fr \in FrameRates,
        sp \in { [flatness |-> 0, bands |-> <<10, 30, 20, 20, 15, 5>>],
                 [flatness |-> 100, bands |-> <<0, 0, 0, 0, 0, 0>>] },
        ld \in { <<0, 0>>, <<NegInf, NegInf>>, <<-140, -10>>, <<-30, 30>> } }

\* the buffer carries what its own samples measure
Consistent(b, lufs) ==
    /\ [flatness |-> b.flatness, bands |-> b.bands] \in SpectralOutcomes(MonoMix(b))
    /\ b.loudness \in LoudnessOutcomes(b, lufs)

MeasureInit ==
    /\ CtlIdle /\ ScoreIdle /\ LimIdle /\ StageIdle
    /\ thresholds = DefaultThresholds
    /\ lufs_available \in BOOLEAN
    /\ buf \in Buffers(lufs_available)
    /\ Consistent(buf, lufs_available)
    /\ outcomes = <<>>

\* report = self.quality_analyzer.analyze(audio)
AnalyzeCall ==
    /\ Len(outcomes) < MaxAnalyzeCalls
    /\ outcomes' = Append(outcomes,
                          AnalyzeBuffer(buf, thresholds, lufs_available, outcomes))
    /\ UNCHANGED <<buf, thresholds, lufs_available, ctlVars, scoreVars, limVars,
                 stageVars>>

MeasureNext == AnalyzeCall

MeasureSpec == MeasureInit /\ [][MeasureNext]_vars

\* the buffer holds at least one frame and no sample of any channel is non-zero
AllSilentBuffer == Len(buf.left) > 0 /\ AllZero(buf.left) /\ AllZero(buf.right)

C14_EmptyBufferReportsSilence ==
    \A i \in 1..Len(outcomes) :
      Len(buf.left) = 0 =>
        /\ ~outcomes[i].raised
        /\ outcomes[i].report.overall_score = 0
        /\ outcomes[i].report.band_energies = <<0, 0, 0, 0, 0, 0>>

\* C15: for an all-zero buffer every level metric of the report is finite
C15_SilentLevelsFinite ==
    \A i \in 1..Len(outcomes) :
      AllSilentBuffer =>
        /\ ~outcomes[i].raised
        /\ outcomes[i].report.peak_level_db # NegInf
        /\ outcomes[i].report.rms_level_db # NegInf
        /\ outcomes[i].report.dynamic_range_db # NegInf
        /\ outcomes[i].report.crest_factor_db # NegInf
        /\ outcomes[i].report.true_peak_db # NegInf

\* C16: for an all-silent buffer lasting at least the minimum gap duration (half
\* a second, at the buffer's own frame rate) the report has 100 % silence, one
\* gap from time 0 over the buffer's full duration, and both silence penalties
\* at their caps (40 and 35 points)
C16_SilentBufferOneFullGap ==
    \A i \in 1..Len(outcomes) :
      (AllSilentBuffer /\ 2 * Len(buf.left) >= buf.frame_rate) =>
        /\ ~outcomes[i].raised
        /\ outcomes[i].report.total_silence_percentage = 1000
        /\ outcomes[i].report.silence_gaps
             = << <<0, (Len(buf.left) * 100) \div buf.frame_rate>> >>
        /\ SilencePenalty(outcomes[i].report, thresholds) = 4000
        /\ LongSilencePenalty(outcomes[i].report, thresholds) = 3500

\* the samples of the buffer, channel after channel
BufferSampleCount == buf.channels * Len(buf.left)
BufferCountAtLeast(level) ==
    Cardinality({k \in 1..Len(buf.left) : Abs(buf.left[k]) >= level})
      + (IF buf.channels = 2
         THEN Cardinality({k \in 1..Len(buf.right) : Abs(buf.right[k]) >= level})
         ELSE 0)

\* the number of frames whose mono-mix sample has magnitude at least `level`
MixCountAtLeast(level) ==
    Cardinality({k \in 1..Len(buf.left) : Abs(MonoMix(buf)[k]) >= level})

\* C17 as claimed: when exactly half of the buffer's samples have
\* |sample| >= 0.99 and the others are below 0.95, clipping_percentage is 50.0
\* and passed is false
C17_HalfClippedFails ==
    \A i \in 1..Len(outcomes) :
      ( /\ Len(buf.left) > 0
        /\ 2 * BufferCountAtLeast(9900) = BufferSampleCount
        /\ BufferCountAtLeast(9500) = BufferCountAtLeast(9900) ) =>
        /\ ~outcomes[i].raised
        /\ outcomes[i].report.clipping_percentage = 50000
        /\ ~outcomes[i].report.passed

\* C17 amended: when exactly half of the samples of the mono mix (the samples
\* of a 1-channel buffer, (L + R) / 2 of a 2-channel one) have |sample| >= 0.99
\* and the others are below 0.95, clipping_percentage is 50.0 and passed is false
C17_HalfClippedMixFails ==
    \A i \in 1..Len(outcomes) :
      ( /\ Len(buf.left) > 0
        /\ 2 * MixCountAtLeast(9900) = Len(buf.left)
        /\ MixCountAtLeast(9500) = MixCountAtLeast(9900) ) =>
        /\ ~outcomes[i].raised
        /\ outcomes[i].report.clipping_percentage = 50000
        /\ ~outcomes[i].report.passed

\* an analyzed buffer whose mix is half at full scale and half at 0.5, with no
\* silence and with loudness on target: 50 % clipping, 60 points lost, failed
C17_Witness ==
    /\ Len(outcomes) >= 1 /\ ~outcomes[1].raised
    /\ Len(buf.left) = 4
    /\ MixCountAtLeast(9900) = 2
    /\ \A k \in 1..4 : Abs(MonoMix(buf)[k]) \in {5000, 10000}
    /\ outcomes[1].report.clipping_percentage = 50000
    /\ ClippingPenalty(outcomes[1].report, thresholds) = 6000
    /\ outcomes[1].report.total_silence_percentage = 0
    /\ outcomes[1].report.overall_score <= 4000
    /\ ~outcomes[1].report.passed

\* a 2-channel buffer with at least one frame whose channels are equal sample
\* for sample
DualMonoBuffer == buf.channels = 2 /\ Len(buf.left) > 0 /\ buf.left = buf.right

\* C18 as claimed: for L == R the report has phase_correlation 1 and
\* stereo_width 0, also when both channels are all zero
C18_DualMonoPhaseOne ==
    \A i \in 1..Len(outcomes) :
      DualMonoBuffer =>
        /\ ~outcomes[i].raised
        /\ outcomes[i].report.phase_correlation = 100
        /\ outcomes[i].report.stereo_width = 0

\* C18 amended: for L == R the report has stereo_width 0, and phase_correlation
\* 1 when some sample is non-zero; when both channels are all zero
\* phase_correlation keeps its initial value 0
C18_DualMonoPhaseOneUnlessSilent ==
    \A i \in 1..Len(outcomes) :
      DualMonoBuffer =>
        /\ ~outcomes[i].raised
        /\ outcomes[i].report.stereo_width = 0
        /\ outcomes[i].report.phase_correlation
             = (IF AllZero(buf.left) THEN 0 ELSE 100)

\* an analyzed all-zero dual-mono buffer: the correlation is left at 0 and the
\* report warns about phase correlation
C18_Witness ==
    /\ Len(outcomes) >= 1
    /\ DualMonoBuffer
    /\ AllZero(buf.left)
    /\ outcomes[1].report.phase_correlation = 0
    /\ outcomes[1].report.stereo_width = 0
    /\ "Phase correlation issues" \in
         {outcomes[1].report.warnings[k] : k \in 1..Len(outcomes[1].report.warnings)}

\* the maximal runs of silent samples of a signal, as <<first index (from 0),
\* length>>
MaximalSilentRuns(m) ==
    { <<a - 1, b - a + 1>> : <<a, b>> \in
        { ab \in (1..Len(m)) \X (1..Len(m)) :
            /\ ab[1] <= ab[2]
            /\ \A k \in ab[1]..ab[2] : IsSilent(m[k])
            /\ (ab[1] = 1 \/ ~IsSilent(m[ab[1] - 1]))
            /\ (ab[2] = Len(m) \/ ~IsSilent(m[ab[2] + 1])) } }

GapSet(r) == {r.silence_gaps[k] : k \in 1..Len(r.silence_gaps)}

\* C19 as claimed: a maximal run of silent samples is reported as a gap exactly
\* when it lasts at least the minimum duration of half a second
C19_GapIffAtLeastMinimum ==
    \A i \in 1..Len(outcomes) :
      ~outcomes[i].raised =>
        /\ GapSet(outcomes[i].report)
             = { Gap(run[1], run[2], AnalyzerRate) :
                   run \in { x \in MaximalSilentRuns(MonoMix(buf)) :
                               2 * x[2] >= AnalyzerRate } }
        /\ outcomes[i].report.silence_gap_count
             = Cardinality(GapSet(outcomes[i].report))

\* C19 amended: a maximal run of silent samples is reported as a gap exactly when
\* it lasts longer than half a second (a run of exactly half a second is not
\* reported), whether a non-silent sample or the end of the buffer ends it
C19_GapIffLongerThanMinimum ==
    \A i \in 1..Len(outcomes) :
      ~outcomes[i].raised =>
        /\ GapSet(outcomes[i].report)
             = { Gap(run[1], run[2], AnalyzerRate) :
                   run \in { x \in MaximalSilentRuns(MonoMix(buf)) :
                               2 * x[2] > AnalyzerRate } }
        /\ outcomes[i].report.silence_gap_count
             = Cardinality(GapSet(outcomes[i].report))

\* an analyzed buffer with a run of exactly half a second and a longer run, one
\* ended by a non-silent sample and one by the end of the buffer: only the
\* longer one is reported
C19_Witness ==
    /\ Len(outcomes) >= 1 /\ ~outcomes[1].raised
    /\ \E x, y \in MaximalSilentRuns(MonoMix(buf)) :
         /\ 2 * x[2] = AnalyzerRate
         /\ 2 * y[2] > AnalyzerRate
         /\ (x[1] + x[2] = Len(buf.left)) # (y[1] + y[2] = Len(buf.left))
         /\ outcomes[1].report.silence_gaps = << Gap(y[1], y[2], AnalyzerRate) >>

(***************************************************************************)
(* The penalty rule of the scoring, stated on its own                      *)
(***************************************************************************)

\* min(cap, excess * multiplier) for a violated threshold (excess > 0), else 0
ExcessPenalty(cap, excess, multiplier) ==
    IF excess > 0 THEN Min(cap, excess * multiplier) ELSE 0

\* rules 2 to 9 and 11 as min(cap, excess * multiplier)
PenaltiesByExcess(r, th, lufs) ==
    ExcessPenalty(4000, r.total_silence_percentage - th.silence_max_percentage, 50)
  + ExcessPenalty(3500, r.longest_silence_duration - th.silence_max_gap_seconds, 20)
  + ExcessPenalty(3000, th.dynamic_range_min_db - r.dynamic_range_db, 30)
  + ExcessPenalty(3000, r.peak_level_db - th.peak_max_db, 200)
  + ExcessPenalty(2000, th.rms_min_db - r.rms_level_db, 15)
  + ExcessPenalty(1000, r.rms_level_db - th.rms_max_db, 20)
  + ExcessPenalty(1500, th.spectral_flatness_min - r.spectral_flatness, 30)
  + ExcessPenalty(2500, th.phase_correlation_min - r.phase_correlation, 40)
  + ExcessPenalty(1500, th.stereo_width_min - r.stereo_width, 5)
  + (IF lufs /\ r.integrated_lufs # 0
     THEN ExcessPenalty(2000, -200 - r.integrated_lufs, 20)
        + ExcessPenalty(1500, r.integrated_lufs + 60, 30)
        + ExcessPenalty(2500, r.true_peak_db + 5, 200)
     ELSE 0)

\* C20 as claimed: every penalty subtracted, the clipping penalty included, is
\* min(cap, excess * multiplier), so that a slight excess costs a slight penalty
C20_AllPenaltiesByExcess ==
    qpc = "scored" =>
      /\ ClippingPenalty(qreport, thresholds)
           = ExcessPenalty(6000, qreport.clipping_percentage
                                   - thresholds.clipping_max_percentage, 100)
      /\ qreport.overall_score
           = Max(0, 10000
                    - ExcessPenalty(6000, qreport.clipping_percentage
                                            - thresholds.clipping_max_percentage, 100)
                    - PenaltiesByExcess(qreport, thresholds, lufs_available))

\* C20 amended: every penalty subtracted is min(cap, excess * multiplier), except
\* the clipping penalty, which is min(60, clipping_percentage * 1000) on the
\* whole percentage once it exceeds the threshold
C20_PenaltiesByExcessButClipping ==
    qpc = "scored" =>
      qreport.overall_score
        = Max(0, 10000
                 - (IF qreport.clipping_percentage > thresholds.clipping_max_percentage
                    THEN Min(6000, qreport.clipping_percentage * 100) ELSE 0)
                 - PenaltiesByExcess(qreport, thresholds, lufs_available))

\* a scored report 0.001 % over the clipping threshold that lost 2 points for
\* clipping, and lost points for a long gap by its excess
C20_Witness ==
    /\ qpc = "scored"
    /\ thresholds = DefaultThresholds
    /\ qreport.clipping_percentage = 2
    /\ ClippingPenalty(qreport, thresholds) = 200
    /\ qreport.longest_silence_duration = 120
    /\ LongSilencePenalty(qreport, thresholds) = 800
    /\ qreport.overall_score > 0

\* C24 as claimed: the six band energies of every report sum to 100, also for
\* a buffer shorter than one window plus one hop and for one without energy
\* between 20 Hz and 20 kHz
C24_BandsSumTo100 ==
    \A i \in 1..Len(outcomes) :
      ~outcomes[i].raised => Sum6(outcomes[i].report.band_energies) = 10000

\* C24 amended: the six band energies sum to 100 when the buffer holds at least
\* one window plus one hop of samples and has energy between 20 Hz and 20 kHz;
\* otherwise the six are 0
C24_BandsSumTo100OrAllZero ==
    \A i \in 1..Len(outcomes) :
      ~outcomes[i].raised =>
        IF Len(buf.left) >= FftSize + HopSize /\ Sum6(buf.bands) > 0
        THEN Sum6(outcomes[i].report.band_energies) = 10000
        ELSE outcomes[i].report.band_energies = <<0, 0, 0, 0, 0, 0>>

\* the report of a buffer of exactly one window plus one hop with energy in
\* every band: the shares add up to 100
C24_Witness ==
    /\ Len(outcomes) >= 1 /\ ~outcomes[1].raised
    /\ Len(buf.left) = FftSize + HopSize
    /\ \A k \in 1..6 : outcomes[1].report.band_energies[k] > 0
    /\ outcomes[1].report.band_energies[2] = 3000
    /\ Sum6(outcomes[1].report.band_energies) = 10000

\* C27: under the default thresholds a buffer of one channel never passes:
\* stereo_width and phase_correlation keep their initial 0, the phase and the
\* stereo-width penalties are at their caps (25 and 15 points), and
\* overall_score is at most 60
C27_MonoNeverPasses ==
    \A i \in 1..Len(outcomes) :
      (buf.channels = 1 /\ ~outcomes[i].raised) =>
        LET r == outcomes[i].report
        IN  /\ r.stereo_width = 0
            /\ r.phase_correlation = 0
            /\ PhasePenalty(r, DefaultThresholds) = 2500
            /\ StereoWidthPenalty(r, DefaultThresholds) = 1500
            /\ r.overall_score <= 6000
            /\ ~r.passed

\* a 1-channel buffer with signal in every frame has been analysed: the report
\* is returned with a score above 0 and is rejected
C27_Witness ==
    /\ buf.channels = 1
    /\ Len(buf.left) = MaxFrames
    /\ \A k \in 1..Len(buf.left) : buf.left[k] # 0
    /\ Len(outcomes) >= 1 /\ ~outcomes[1].raised
    /\ outcomes[1].report.overall_score > 0
    /\ ~outcomes[1].report.passed

\* band energies a report could carry instead of its own: none, a tonal
\* balance, everything in the sub bass, and an even spread
BandAlternatives ==
    { <<0, 0, 0, 0, 0, 0>>, <<1000, 3000, 2000, 2000, 1500, 500>>,
      <<10000, 0, 0, 0, 0, 0>>, <<1667, 1667, 1667, 1667, 1666, 1666>> }

\* the report with other band energies, scored again by _calculate_score
Rescored(r, e) ==
    CalculateScore([r EXCEPT !.band_energies = e], thresholds, lufs_available)

StageMix(channels, lufs) ==
    IF channels = 2 THEN CleanMix(lufs)
    ELSE [ CleanMix(lufs) EXCEPT !.phase_correlation = 0, !.stereo_width = 0 ]

\* the stored reports of the best candidates drawn: silence, longest gap and
\* levels below and above the three gates
StageReports(channels, lufs) ==
    { Analyze(r, DefaultThresholds, lufs) :
        r \in { m \in { [ StageMix(channels, lufs) EXCEPT
                            !.total_silence_percentage = s,
                            !.longest_silence_duration = g,
                            !.silence_gap_count = IF g > 0 THEN 1 ELSE 0,
                            !.peak_level_db = lv[1], !.rms_level_db = lv[2],
                            !.dynamic_range_db = lv[1] - lv[2],
                            !.clipping_percentage = IF lv[1] >= 0 THEN 50 ELSE 0 ] :
                          s \in SilenceValues, g \in LongSilenceValues,
                          lv \in LevelPairs } :
                  Measurable(m, lufs) } }

StageInit ==
    /\ CtlIdle /\ ScoreIdle /\ LimIdle /\ MeasureIdle
    /\ thresholds = DefaultThresholds
    /\ lufs_available \in BOOLEAN
    /\ stage_flags \in [enable_qa : BOOLEAN, enable_humanization : BOOLEAN,
                        enable_mastering : BOOLEAN]
    /\ \E channels \in {1, 2} :
         /\ stage_best \in
              { [channels |-> channels, report |-> r] :
                  r \in (IF stage_flags.enable_qa
                         THEN StageReports(channels, lufs_available)
                         ELSE {None}) }
         \* `audio = best_audio`
         /\ stage_audio = [channels |-> channels, ops |-> <<>>]
    /\ stage_pc = "fixes"

\* Stage 3: `audio = self._apply_intelligent_fixes(audio, best_report)`
StageFixes ==
    /\ stage_pc = "fixes"
    /\ IF RunsRepair(stage_flags.enable_qa, stage_flags.enable_humanization,
                     stage_flags.enable_mastering, stage_best.report)
       THEN stage_audio' = ApplyIntelligentFixes(stage_audio, stage_best.report)
       ELSE UNCHANGED stage_audio
    /\ stage_pc' = IF IsRaised(stage_audio') THEN "raised" ELSE StageAfter(stage_pc)
    /\ UNCHANGED <<stage_flags, stage_best, ctlVars, anaVars, scoreVars, limVars>>

\* Stage 4: humanizer.humanize_audio, then humanizer.add_room_ambience
StageHumanize ==
    /\ stage_pc = "humanize"
    /\ IF RunsHumanization(stage_flags.enable_qa, stage_flags.enable_humanization,
                           stage_flags.enable_mastering)
       THEN stage_audio' = AddRoomAmbience(HumanizeAudio(stage_audio))
       ELSE UNCHANGED stage_audio
    /\ stage_pc' = StageAfter(stage_pc)
    /\ UNCHANGED <<stage_flags, stage_best, ctlVars, anaVars, scoreVars, limVars>>

\* Stage 5: mastering.master_audio
StageMaster ==
    /\ stage_pc = "master"
    /\ IF RunsMastering(stage_flags.enable_qa, stage_flags.enable_humanization,
                        stage_flags.enable_mastering)
       THEN stage_audio' = MasterAudio(stage_audio)
       ELSE UNCHANGED stage_audio
    /\ stage_pc' = StageAfter(stage_pc)
    /\ UNCHANGED <<stage_flags, stage_best, ctlVars, anaVars, scoreVars, limVars>>

\* the final analysis reads the buffer; `return audio, final_report`
StageReturn ==
    /\ stage_pc = "final"
    /\ stage_pc' = StageAfter(StageAfter(stage_pc))
    /\ UNCHANGED <<stage_flags, stage_best, stage_audio, ctlVars, anaVars,
                   scoreVars, limVars>>

StageNext ==
    \/ StageFixes
    \/ StageHumanize
    \/ StageMaster
    \/ StageReturn

StageSpec == StageInit /\ [][StageNext]_vars

FixNames == <<"fill_silence_gaps", "add_continuous_ambience", "soft_knee_compression">>

\* the fix `op` was entered: it is among the steps applied to the buffer, or it
\* is the one that raised
FixRan(op) ==
    IF IsRaised(stage_audio) THEN stage_audio.at = op
    ELSE \E i \in 1..Len(stage_audio.ops) : stage_audio.ops[i] = op

\* the fixes _apply_intelligent_fixes applies to a 2-channel buffer for report r
FixesFor(r) ==
    LET a == ApplyIntelligentFixes([channels |-> 2, ops |-> <<>>], r)
    IN  {a.ops[i] : i \in 1..Len(a.ops)}

\* C22: once the repair has been entered, the silence filler has run iff
\* silence_gap_count > 0 and longest_silence_duration > 1.0, the ambience layer
\* iff total_silence_percentage > 10.0, the compressor iff dynamic_range_db >
\* 20.0, in that order; and each of the eight combinations occurs for some report
C22_FixesGatedIndependently ==
    (stage_pc \notin {"idle", "fixes"} /\ stage_flags.enable_qa) =>
      LET r == stage_best.report
      IN  /\ FixRan(FixNames[1]) <=>
               (r.silence_gap_count > 0 /\ r.longest_silence_duration > 100)
          /\ FixRan(FixNames[2]) <=> r.total_silence_percentage > 100
          /\ FixRan(FixNames[3]) <=> r.dynamic_range_db > 200
          /\ ~IsRaised(stage_audio) =>
               \A i, j \in 1..Len(stage_audio.ops) :
                 \A k, l \in 1..3 :
                   (stage_audio.ops[i] = FixNames[k] /\ stage_audio.ops[j] = FixNames[l]
                      /\ k < l) => i < j
          /\ \A c \in SUBSET {FixNames[k] : k \in 1..3} :
               \E q \in StageReports(2, lufs_available) : FixesFor(q) = c

\* C30: at every point after the loop the buffer in flight has the channel
\* count of the best candidate, and so has the buffer returned
C30_ChannelCountPreserved ==
    stage_pc # "idle" =>
      /\ ~IsRaised(stage_audio)
      /\ stage_audio.channels = stage_best.channels
====
